---- MODULE Spec2Model ----
(***************************************************************************)
(* Model of src/assignment.py: ParseAvailRequest.main, which parses an     *)
(* availability request (parse), validates it step by step and builds the  *)
(* priced response (generate_response).                                    *)
(*                                                                         *)
(* The XML document is modelled as the tree lookups parse performs on it:  *)
(* every element or attribute the code reads is a field saying whether the *)
(* lookup finds it and what text it carries.  Numeric texts are sequences  *)
(* of decimal digits, dates are day/month/year triples; int() and strptime *)
(* are modelled by the conversions they compute.                           *)
(***************************************************************************)
EXTENDS Integers, Sequences, FiniteSets, TLC

VARIABLES
    doc,                \* the request document handed to main
    today,              \* the calendar date datetime.today() falls on
    pc,                 \* position of main/parse
    language_code,
    password, username, company_id,
    search_type, avail_destinations,
    start_date, end_date,
    options_quota,
    currency, nationality, market,
    paxes, pax_data, room,
    data,               \* the record parse returns
    result              \* what main returns or raises

vars == << doc, today, pc, language_code, password, username, company_id,
           search_type, avail_destinations, start_date, end_date,
           options_quota, currency, nationality, market, paxes, pax_data,
           room, data, result >>

(***************************************************************************)
(* Configuration set by __init__                                           *)
(***************************************************************************)
allowed_currencies == {"EUR", "USD", "GBP"}
allowed_nationalities == {"US", "GB", "CA"}
allowed_market == {"US", "GB", "CA", "ES"}
var_filters_cg == {"en", "fr", "de", "es"}
allowed_room_count == 5
default_language == "en"
default_currency == "EUR"
default_nationality == "US"
default_market == "ES"
allowed_hotel_count == 10
default_options_quota == 20
max_options_quota == 50
max_child_age == 5
allowed_room_guest_count == 5
\* self.price: net 132.42 in hundredths, sample currency
price_net == 13242
price_currency == "USD"
\* markup_percentage 3.2 in tenths of a percent
markup_percentage == 32

(***************************************************************************)
(* Bounds of the explored inputs                                           *)
(***************************************************************************)
MaxDest == 11           \* largest number of AvailDestinations entries
MaxPaxPerRoom == 6      \* largest number of Pax in one Paxes block
MaxRoomBlocks == 6      \* largest number of Paxes blocks
MaxDeviations == 4      \* fields in which a document differs from BaseDoc

(***************************************************************************)
(* Python values                                                           *)
(***************************************************************************)
\* an attribute or element text: found = FALSE is Python's None
None == [found |-> FALSE, text |-> ""]
Text(s) == [found |-> TRUE, text |-> s]
\* truthiness of an optional string
Truthy(a) == a.found /\ a.text # ""

\* an optional integer: some = FALSE is Python's None
NoneInt == [some |-> FALSE, val |-> 0]
SomeInt(n) == [some |-> TRUE, val |-> n]

\* int(text) for a text of decimal digits
RECURSIVE int(_)
int(digits) ==
    IF digits = << >> THEN 0
    ELSE 10 * int(SubSeq(digits, 1, Len(digits) - 1)) + digits[Len(digits)]

DigitChar(d) ==
    CASE d = 0 -> "0" [] d = 1 -> "1" [] d = 2 -> "2" [] d = 3 -> "3"
      [] d = 4 -> "4" [] d = 5 -> "5" [] d = 6 -> "6" [] d = 7 -> "7"
      [] d = 8 -> "8" [] d = 9 -> "9"

\* str(n) as an f-string formats a non-negative integer
RECURSIVE str(_)
str(n) == IF n < 10 THEN DigitChar(n) ELSE str(n \div 10) \o DigitChar(n % 10)

\* datetime.strptime(text, "%d/%m/%Y") as the proleptic Gregorian ordinal of
\* the day; the time of day of the parsed value is midnight
IsLeap(y) == (y % 4 = 0) /\ ((y % 100 # 0) \/ (y % 400 = 0))
DaysInMonth(y, m) ==
    IF m = 2 THEN (IF IsLeap(y) THEN 29 ELSE 28)
    ELSE IF m \in {4, 6, 9, 11} THEN 30 ELSE 31
RECURSIVE DaysBeforeMonth(_, _)
DaysBeforeMonth(y, m) ==
    IF m = 1 THEN 0 ELSE DaysBeforeMonth(y, m - 1) + DaysInMonth(y, m - 1)
strptime(d) ==
    LET y1 == d.year - 1
    IN  365 * y1 + (y1 \div 4) - (y1 \div 100) + (y1 \div 400)
          + DaysBeforeMonth(d.year, d.month) + d.day

Date(d, m, y) == [day |-> d, month |-> m, year |-> y]

(***************************************************************************)
(* Exceptions and what main makes of them                                  *)
(***************************************************************************)
NoExc == [exc |-> "", message |-> ""]
Raised(e, m) == [exc |-> e, message |-> m]
ValueError(m) == Raised("ValueError", m)
\* reading .text or .get of a lookup that found nothing
AttributeError == Raised("AttributeError", "'NoneType' object has no attribute")
\* evaluating a name that no module defines
NameError(n) == Raised("NameError", "name '" \o n \o "' is not defined")

Pending == [kind |-> "pending", body |-> << >>, error |-> "", exception |-> ""]
\* main returns the serialised list of offers
Response(items) ==
    [kind |-> "response", body |-> items, error |-> "", exception |-> ""]
\* main: except ValueError returns {"error": str(e)}; any other exception
\* leaves main uncaught
Except(e) ==
    IF e.exc = "ValueError"
    THEN [kind |-> "error", body |-> << >>, error |-> e.message,
          exception |-> ""]
    ELSE [kind |-> "uncaught", body |-> << >>, error |-> "",
          exception |-> e.exc]

(***************************************************************************)
(* The validators                                                          *)
(***************************************************************************)
validate_destination(st, dests) ==
    IF st = "Single" /\ Len(dests) # 1
    THEN ValueError("If SearchType is 'Single', there must be exactly one destination.")
    ELSE IF st = "Multiple" /\ Len(dests) > allowed_hotel_count
    THEN NameError("ALLOWED_HOTEL_COUNT")
    ELSE NoExc

validate_user(pw, un, cid) ==
    IF ~(Truthy(pw) /\ Truthy(un) /\ Truthy(cid))
    THEN ValueError("Missing required parameters: password, username, or CompanyID.")
    ELSE NoExc

\* start and end are midnights (day ordinals); now is the day ordinal of
\* datetime.today(), whose time of day t satisfies 0 <= t < 1 day, so
\* start <= now + t + 2 days is start <= now + 2
validate_date(start, end, now) ==
    IF start <= now + 2
    THEN ValueError("Start date must be at least 2 days after today.")
    ELSE IF end - start < 3
    THEN ValueError("Stay duration must be at least 3 nights.")
    ELSE NoExc

\* the value the check is applied to: the default replaces None and 0
ResolvedQuota(q) ==
    IF ~q.some \/ q.val = 0 THEN default_options_quota ELSE q.val

validate_options_quota(q) ==
    IF ResolvedQuota(q) > max_options_quota
    THEN ValueError("OptionsQuota must be no greater than 50.")
    ELSE NoExc

validate_language_code(lc) ==
    IF lc \notin var_filters_cg
    THEN ValueError("Invalid language code: " \o lc)
    ELSE NoExc

validate_room_count(count) ==
    IF count > allowed_room_count
    THEN ValueError("Number of rooms cannot exceed " \o str(allowed_room_count) \o ".")
    ELSE NoExc

\* net_price * (1 + markup_percentage / 100), in units of 1e-5
calculate_selling_price(net, markup) == net * (1000 + markup)

(***************************************************************************)
(* Request documents                                                       *)
(***************************************************************************)
Pax(digits) == [hasAge |-> TRUE, age |-> digits]
PaxNoAge == [hasAge |-> FALSE, age |-> << >>]
AgeSamples ==
    << Pax(<<3, 5>>), Pax(<<5>>), Pax(<<6>>), PaxNoAge, Pax(<<1, 0>>),
       Pax(<<2>>) >>
PaxesBlock(i, n) ==
    [j \in 1..n |-> AgeSamples[((i + j) % Len(AgeSamples)) + 1]]
PaxesOf(shape) == [i \in 1..Len(shape) |-> PaxesBlock(i, shape[i])]

Parameter(pw, un, cid) ==
    [found |-> TRUE, password |-> pw, username |-> un, CompanyID |-> cid]
NoParameter ==
    [found |-> FALSE, password |-> None, username |-> None, CompanyID |-> None]

Quota(digits) == [found |-> TRUE, text |-> digits]
NoQuota == [found |-> FALSE, text |-> << >>]

Destinations(n) == [i \in 1..n |-> i]

\* the sample request of the module, xml_request; its stay is 2 nights
BaseDoc ==
    [ languageCode |-> Text("en"),
      optionsQuota |-> Quota(<<2, 0>>),
      Parameter |-> Parameter(Text("XXXXXXXXXX"), Text("YYYYYYYYY"), Text("123456")),
      SearchType |-> "Multiple",
      StartDate |-> Date(14, 10, 2024),
      EndDate |-> Date(16, 10, 2024),
      Currency |-> Text("USD"),
      Nationality |-> Text("US"),
      Market |-> None,
      AvailDestinations |-> Destinations(3),
      Paxes |-> << << Pax(<<1, 0>>), Pax(<<3>>) >>,
                   << Pax(<<3, 5>>), Pax(<<2>>) >> >> ]

LanguageInputs == { BaseDoc.languageCode, None, Text("fr"), Text("xx") }
QuotaInputs ==
    { BaseDoc.optionsQuota, NoQuota, Quota(<< >>), Quota(<<0>>),
      Quota(<<5, 0>>), Quota(<<5, 1>>) }
ParameterInputs ==
    { BaseDoc.Parameter, NoParameter,
      Parameter(None, Text("YYYYYYYYY"), Text("123456")),
      Parameter(Text("XXXXXXXXXX"), Text(""), Text("123456")) }
SearchTypeInputs == { "Single", "Multiple", "Other" }
StartDateInputs == { BaseDoc.StartDate, Date(12, 10, 2024), Date(13, 10, 2024) }
EndDateInputs == { BaseDoc.EndDate, Date(17, 10, 2024), Date(1, 11, 2024) }
CurrencyInputs == { BaseDoc.Currency, None, Text("XXX") }
NationalityInputs == { BaseDoc.Nationality, None, Text("ZZ") }
MarketInputs == { BaseDoc.Market, Text("GB"), Text("XX") }
DestinationInputs ==
    { Destinations(n) : n \in {0, 1, 2, 3, allowed_hotel_count,
                                allowed_hotel_count + 1, MaxDest} }
PaxesInputs ==
    { BaseDoc.Paxes } \cup
    { PaxesOf(s) : s \in { << >>, <<3, 3>>, <<allowed_room_guest_count>>,
                           <<allowed_room_guest_count + 1>>,
                           <<MaxPaxPerRoom>>,
                           [i \in 1..allowed_room_count |-> 1],
                           [i \in 1..(allowed_room_count + 1) |-> 1],
                           [i \in 1..MaxRoomBlocks |-> 1] } }
TodayInputs == { Date(10, 10, 2024), Date(11, 10, 2024) }

Fields ==
    { "languageCode", "optionsQuota", "Parameter", "SearchType", "StartDate",
      "EndDate", "Currency", "Nationality", "Market", "AvailDestinations",
      "Paxes" }
Deviations(d) == Cardinality({ f \in Fields : d[f] # BaseDoc[f] })

Documents ==
    { d \in [ languageCode : LanguageInputs,
              optionsQuota : QuotaInputs,
              Parameter : ParameterInputs,
              SearchType : SearchTypeInputs,
              StartDate : StartDateInputs,
              EndDate : EndDateInputs,
              Currency : CurrencyInputs,
              Nationality : NationalityInputs,
              Market : MarketInputs,
              AvailDestinations : DestinationInputs,
              Paxes : PaxesInputs ] : Deviations(d) <= MaxDeviations }

(***************************************************************************)
(* State of one call of main                                               *)
(***************************************************************************)
NoData ==
    [ returned |-> FALSE, language_code |-> "", options_quota |-> NoneInt,
      password |-> None, username |-> None, company_id |-> None,
      search_type |-> "", start_date |-> 0, end_date |-> 0, currency |-> "",
      nationality |-> "", market |-> "", avail_destinations |-> << >>,
      paxes |-> << >> ]

Init ==
    /\ doc \in Documents
    /\ today \in TodayInputs
    /\ pc = "language"
    /\ language_code = ""
    /\ password = None /\ username = None /\ company_id = None
    /\ search_type = "" /\ avail_destinations = << >>
    /\ start_date = 0 /\ end_date = 0
    /\ options_quota = NoneInt
    /\ currency = "" /\ nationality = "" /\ market = ""
    /\ paxes = << >> /\ pax_data = << >> /\ room = 0
    /\ data = NoData
    /\ result = Pending

\* the statement that follows a check: go on, or leave parse with e, which
\* main turns into its result
Continue(e, next) ==
    /\ pc' = IF e = NoExc THEN next ELSE "done"
    /\ result' = IF e = NoExc THEN result ELSE Except(e)

input == << doc, today >>
user_vars == << password, username, company_id >>
dest_vars == << search_type, avail_destinations >>
date_vars == << start_date, end_date >>
market_vars == << currency, nationality, market >>
pax_vars == << paxes, pax_data, room >>

\* parse: extract and validate the language
ExtractLanguage ==
    /\ pc = "language"
    /\ LET node == doc.languageCode
       IN  IF ~node.found
           THEN /\ Continue(NameError("DEFAULT_LANGUAGE"), "user")
                /\ UNCHANGED language_code
           ELSE /\ language_code' = node.text
                /\ Continue(validate_language_code(node.text), "user")
    /\ UNCHANGED << input, user_vars, dest_vars, date_vars, options_quota,
                    market_vars, pax_vars, data >>

\* parse: extract and validate the user details
ExtractUser ==
    /\ pc = "user"
    /\ LET parameters == doc.Parameter
       IN  IF ~parameters.found
           THEN /\ Continue(AttributeError, "destination")
                /\ UNCHANGED user_vars
           ELSE /\ password' = parameters.password
                /\ username' = parameters.username
                /\ company_id' = parameters.CompanyID
                /\ Continue(validate_user(parameters.password,
                                          parameters.username,
                                          parameters.CompanyID), "destination")
    /\ UNCHANGED << input, language_code, dest_vars, date_vars, options_quota,
                    market_vars, pax_vars, data >>

\* parse: extract and validate the destinations
ExtractDestinations ==
    /\ pc = "destination"
    /\ search_type' = doc.SearchType
    /\ avail_destinations' = doc.AvailDestinations
    /\ Continue(validate_destination(doc.SearchType, doc.AvailDestinations),
                "dates")
    /\ UNCHANGED << input, language_code, user_vars, date_vars, options_quota,
                    market_vars, pax_vars, data >>

\* parse: extract the dates; validate_date is not called
ExtractDates ==
    /\ pc = "dates"
    /\ start_date' = strptime(doc.StartDate)
    /\ end_date' = strptime(doc.EndDate)
    /\ Continue(NoExc, "quota")
    /\ UNCHANGED << input, language_code, user_vars, dest_vars, options_quota,
                    market_vars, pax_vars, data >>

\* parse: extract and validate the options quota
ExtractOptionsQuota ==
    /\ pc = "quota"
    /\ LET node == doc.optionsQuota
           quota == IF node.text # << >> THEN SomeInt(int(node.text))
                    ELSE NoneInt
       IN  IF ~node.found
           THEN /\ Continue(AttributeError, "market")
                /\ UNCHANGED options_quota
           ELSE /\ options_quota' = quota
                /\ Continue(validate_options_quota(quota), "market")
    /\ UNCHANGED << input, language_code, user_vars, dest_vars, date_vars,
                    market_vars, pax_vars, data >>

\* parse: extract currency, nationality and market
ExtractMarket ==
    /\ pc = "market"
    /\ IF ~doc.Currency.found
       THEN /\ Continue(AttributeError, "rooms")
            /\ UNCHANGED market_vars
       ELSE /\ currency' = IF doc.Currency.text \in allowed_currencies
                           THEN doc.Currency.text ELSE default_currency
            /\ IF ~doc.Nationality.found
               THEN /\ Continue(AttributeError, "rooms")
                    /\ UNCHANGED << nationality, market >>
               ELSE /\ nationality' =
                         IF doc.Nationality.text \in allowed_nationalities
                         THEN doc.Nationality.text ELSE default_nationality
                    /\ market' = IF doc.Market.found THEN doc.Market.text
                                 ELSE default_market
                    /\ Continue(NoExc, "rooms")
    /\ UNCHANGED << input, language_code, user_vars, dest_vars, date_vars,
                    options_quota, pax_vars, data >>

\* parse: find the room blocks and validate their number
ExtractPaxes ==
    /\ pc = "rooms"
    /\ paxes' = doc.Paxes
    /\ LET e == validate_room_count(Len(doc.Paxes))
       IN  /\ Continue(e, "room_loop")
           /\ IF e = NoExc
              THEN pax_data' = << >> /\ room' = 1
              ELSE UNCHANGED << pax_data, room >>
    /\ UNCHANGED << input, language_code, user_vars, dest_vars, date_vars,
                    options_quota, market_vars, data >>

\* int(pax.get("age", 0)) and the classification by age
PaxAge(pax) == IF pax.hasAge THEN int(pax.age) ELSE 0
PaxType(age) == IF age <= max_child_age THEN "Child" ELSE "Adult"
PaxEntry(pax) == [age |-> PaxAge(pax), type |-> PaxType(PaxAge(pax))]

\* pax_data after the inner loop over one Paxes block: the entries of the
\* block are appended to the list shared by all blocks
AppendPaxes(list, paxes_block) ==
    list \o [j \in 1..Len(paxes_block) |-> PaxEntry(paxes_block[j])]

\* parse: one iteration of the loop over the room blocks; child_count and
\* adult_count are computed from pax_data and not used
RoomLoop ==
    /\ pc = "room_loop"
    /\ room <= Len(paxes)
    /\ LET new == AppendPaxes(pax_data, paxes[room])
       IN  /\ pax_data' = new
           /\ IF Len(new) > allowed_room_guest_count
              THEN /\ Continue(ValueError("Number of passengers in a room cannot exceed "
                                            \o str(allowed_room_guest_count) \o "."),
                               "room_loop")
                   /\ UNCHANGED room
              ELSE /\ Continue(NoExc, "room_loop")
                   /\ room' = room + 1
    /\ UNCHANGED << input, language_code, user_vars, dest_vars, date_vars,
                    options_quota, market_vars, paxes, data >>

\* parse: the loop is over, return the record
Return ==
    /\ pc = "room_loop"
    /\ room > Len(paxes)
    /\ data' = [ returned |-> TRUE, language_code |-> language_code,
                 options_quota |-> options_quota, password |-> password,
                 username |-> username, company_id |-> company_id,
                 search_type |-> search_type, start_date |-> start_date,
                 end_date |-> end_date, currency |-> currency,
                 nationality |-> nationality, market |-> market,
                 avail_destinations |-> avail_destinations, paxes |-> paxes ]
    /\ pc' = "generate"
    /\ UNCHANGED << input, language_code, user_vars, dest_vars, date_vars,
                    options_quota, market_vars, pax_vars, result >>

\* the response item built for the destination at position id
response_item(d, id) ==
    [ id |-> "A#" \o str(id),
      hotelCodeSupplier |-> "39971881",
      market |-> d.market,
      price |-> [ minimumSellingPrice |-> "None",
                  currency |-> price_currency,
                  net |-> price_net,
                  selling_price |->
                      calculate_selling_price(price_net, markup_percentage),
                  selling_currency |-> d.currency,
                  markup |-> markup_percentage,
                  exchange_rate |-> 1 ] ]

\* variant: id counting from 0
generate_response_from_zero(d) ==
    [ id \in 1..Len(d.avail_destinations) |-> response_item(d, id - 1) ]

\* one item per destination, id counting from 1
generate_response(d) ==
    [ id \in 1..Len(d.avail_destinations) |-> response_item(d, id) ]

\* main: build the response of the parsed request
GenerateResponse ==
    /\ pc = "generate"
    /\ result' = Response(generate_response(data))
    /\ pc' = "done"
    /\ UNCHANGED << input, language_code, user_vars, dest_vars, date_vars,
                    options_quota, market_vars, pax_vars, data >>

Next ==
    \/ ExtractLanguage
    \/ ExtractUser
    \/ ExtractDestinations
    \/ ExtractDates
    \/ ExtractOptionsQuota
    \/ ExtractMarket
    \/ ExtractPaxes
    \/ RoomLoop
    \/ Return
    \/ GenerateResponse

Spec == Init /\ [][Next]_vars

\* the requests in which every element and attribute parse reads is present
AllSupplied(d) ==
    /\ d.languageCode.found /\ d.optionsQuota.found
    /\ d.Parameter.found /\ d.Parameter.password.found
    /\ d.Parameter.username.found /\ d.Parameter.CompanyID.found
    /\ d.Currency.found /\ d.Nationality.found
InitSupplied == Init /\ AllSupplied(doc)
SpecSupplied == InitSupplied /\ [][Next]_vars

TypeOK ==
    /\ pc \in { "language", "user", "destination", "dates", "quota", "market",
                "rooms", "room_loop", "generate", "done" }
    /\ result.kind \in { "pending", "response", "error", "uncaught" }
    /\ (pc = "done") = (result.kind # "pending")

(***************************************************************************)
(* The rules of the validator, read off the request document               *)
(***************************************************************************)
Nights(d) == strptime(d.EndDate) - strptime(d.StartDate)
DaysAhead(d, t) == strptime(d.StartDate) - strptime(t)
QuotaOf(d) ==
    IF d.optionsQuota.found /\ d.optionsQuota.text # << >>
    THEN SomeInt(int(d.optionsQuota.text)) ELSE NoneInt
RECURSIVE TotalPax(_)
TotalPax(blocks) ==
    IF blocks = << >> THEN 0 ELSE Len(Head(blocks)) + TotalPax(Tail(blocks))

LanguageViolated(d) ==
    d.languageCode.found /\ d.languageCode.text \notin var_filters_cg
CredentialsViolated(d) ==
    \/ ~d.Parameter.found
    \/ ~Truthy(d.Parameter.password)
    \/ ~Truthy(d.Parameter.username)
    \/ ~Truthy(d.Parameter.CompanyID)
DestinationViolated(d) ==
    \/ d.SearchType = "Single" /\ Len(d.AvailDestinations) # 1
    \/ d.SearchType = "Multiple" /\ Len(d.AvailDestinations) > allowed_hotel_count
DatesViolated(d, t) == DaysAhead(d, t) < 2 \/ Nights(d) < 3
QuotaViolated(d) == QuotaOf(d).some /\ QuotaOf(d).val > max_options_quota
RoomViolated(d) ==
    \E i \in 1..Len(d.Paxes) : Len(d.Paxes[i]) > allowed_room_guest_count

RuleOrder ==
    << "language", "credentials", "destination", "dates", "quota", "rooms" >>
Violates(d, t, rule) ==
    CASE rule = "language" -> LanguageViolated(d)
      [] rule = "credentials" -> CredentialsViolated(d)
      [] rule = "destination" -> DestinationViolated(d)
      [] rule = "dates" -> DatesViolated(d, t)
      [] rule = "quota" -> QuotaViolated(d)
      [] rule = "rooms" -> RoomViolated(d)
ViolatedRules(d, t) == { i \in 1..Len(RuleOrder) : Violates(d, t, RuleOrder[i]) }
FirstViolated(d, t) ==
    RuleOrder[CHOOSE i \in ViolatedRules(d, t) :
                  \A j \in ViolatedRules(d, t) : i <= j]
RuleMessages(d, rule) ==
    CASE rule = "language" -> { "Invalid language code: " \o d.languageCode.text }
      [] rule = "credentials" ->
           { "Missing required parameters: password, username, or CompanyID." }
      [] rule = "destination" ->
           { "If SearchType is 'Single', there must be exactly one destination.",
             "If SearchType is 'Multiple', there can be a maximum of 10 destinations." }
      [] rule = "dates" ->
           { "Start date must be at least 2 days after today.",
             "Stay duration must be at least 3 nights." }
      [] rule = "quota" -> { "OptionsQuota must be no greater than 50." }
      [] rule = "rooms" -> { "Number of passengers in a room cannot exceed 5." }

\* the steps of parse other than the destination step accept the document
LanguageStepPasses(d) ==
    d.languageCode.found /\ validate_language_code(d.languageCode.text) = NoExc
UserStepPasses(d) ==
    /\ d.Parameter.found
    /\ validate_user(d.Parameter.password, d.Parameter.username,
                     d.Parameter.CompanyID) = NoExc
QuotaStepPasses(d) ==
    d.optionsQuota.found /\ validate_options_quota(QuotaOf(d)) = NoExc
MarketStepPasses(d) == d.Currency.found /\ d.Nationality.found
RoomCountPasses(d) == validate_room_count(Len(d.Paxes)) = NoExc
RoomLoopPasses(d) == TotalPax(d.Paxes) <= allowed_room_guest_count
OtherStepsPass(d) ==
    /\ LanguageStepPasses(d) /\ UserStepPasses(d) /\ QuotaStepPasses(d)
    /\ MarketStepPasses(d) /\ RoomCountPasses(d) /\ RoomLoopPasses(d)
\* every step before the loop over the room blocks accepts the document
StepsBeforeRoomLoopPass(d) ==
    /\ LanguageStepPasses(d) /\ UserStepPasses(d) /\ ~DestinationViolated(d)
    /\ QuotaStepPasses(d) /\ MarketStepPasses(d) /\ RoomCountPasses(d)

SingleMessage ==
    "If SearchType is 'Single', there must be exactly one destination."

(***************************************************************************)
(* Claims                                                                  *)
(***************************************************************************)

\* C1: for a document that violates two or more of the rules language,
\* credentials, destination count, dates, optionsQuota, room occupancy, main
\* reports the failure of the earliest violated rule in that order.
C1_EarliestViolationReported ==
    (pc = "done" /\ Cardinality(ViolatedRules(doc, today)) >= 2) =>
        /\ result.kind = "error"
        /\ result.error \in RuleMessages(doc, FirstViolated(doc, today))

\* C2: for every document that violates a business rule, main returns the
\* JSON object {"error": message of a violated rule} and no offer list; it
\* never ends in another outcome.
C2_ViolationGivesErrorObject ==
    (pc = "done" /\ ViolatedRules(doc, today) # {}) =>
        /\ result.kind = "error"
        /\ result.body = << >>
        /\ \E i \in ViolatedRules(doc, today) :
               result.error \in RuleMessages(doc, RuleOrder[i])

\* C3: every request parse accepts has its start date at least 2 days after
\* the current date and a stay of at least 3 nights.
C3_AcceptedDatesValid ==
    data.returned => (DaysAhead(doc, today) >= 2 /\ Nights(doc) >= 3)

\* C4: for searchType "Multiple" with all other fields valid, a request with
\* at most 10 destinations is accepted and one with more than 10 is rejected
\* with a validation error reported in the error field.
C4_MultipleBoundary ==
    (pc = "done" /\ doc.SearchType = "Multiple" /\ OtherStepsPass(doc)) =>
        IF Len(doc.AvailDestinations) > allowed_hotel_count
        THEN result.kind = "error"
        ELSE result.kind = "response"

\* C5: in the record parse returns, currency, nationality and market are
\* members of their allow-lists: a supplied value inside the allow-list is
\* passed through, any other value or an absent field gives the default.
Resolve(node, allowed, default) ==
    IF node.found /\ node.text \in allowed THEN node.text ELSE default
C5_ResolvedInAllowLists ==
    data.returned =>
        /\ data.currency =
               Resolve(doc.Currency, allowed_currencies, default_currency)
        /\ data.nationality =
               Resolve(doc.Nationality, allowed_nationalities, default_nationality)
        /\ data.market = Resolve(doc.Market, allowed_market, default_market)

\* C6: the optionsQuota of the record parse returns is the resolved value:
\* 20 when the input is absent or zero, the supplied value otherwise, and
\* never greater than 50.
C6_ReturnedQuotaResolved ==
    data.returned =>
        /\ data.options_quota.some
        /\ data.options_quota.val =
               (IF ~QuotaOf(doc).some \/ QuotaOf(doc).val = 0
                THEN 20 ELSE QuotaOf(doc).val)
        /\ data.options_quota.val <= 50

\* C7: a request that passes every earlier check is rejected by the room
\* loop iff some single room block holds more than 5 occupants, whatever the
\* total number of occupants over all rooms.
C7_PerRoomOccupancy ==
    (pc = "done" /\ StepsBeforeRoomLoopPass(doc)) =>
        ((result.kind = "error") <=> RoomViolated(doc))

\* C8: an absent languageCode resolves to the default "en" and validation
\* goes on; a supplied languageCode is kept and fails validation iff it is
\* outside {en, fr, de, es}.
C8_LanguageResolution ==
    (pc = "done") =>
        IF ~doc.languageCode.found
        THEN language_code = "en"
        ELSE /\ language_code = doc.languageCode.text
             /\ (result = Except(ValueError("Invalid language code: "
                                              \o doc.languageCode.text)))
                  <=> (doc.languageCode.text \notin {"en", "fr", "de", "es"})

ExpectedIds ==
    << "A#1", "A#2", "A#3", "A#4", "A#5", "A#6", "A#7", "A#8", "A#9", "A#10",
       "A#11", "A#12", "A#13", "A#14", "A#15" >>

\* C9: for every request parse returns, with n destination entries, main
\* emits exactly n offers, the k-th with id "A#k" and the request's resolved
\* market and selling currency; for n = 0 the result is the empty list.
C9_OneOfferPerDestination ==
    (pc = "done" /\ data.returned) =>
        /\ result.kind = "response"
        /\ Len(result.body) = Len(doc.AvailDestinations)
        /\ \A k \in 1..Len(result.body) :
               /\ result.body[k].id = ExpectedIds[k]
               /\ result.body[k].market = data.market
               /\ result.body[k].price.selling_currency = data.currency

C9_Witness ==
    /\ pc = "done"
    /\ data.returned
    /\ Len(doc.AvailDestinations) = allowed_hotel_count
    /\ Len(result.body) = allowed_hotel_count
    /\ doc.Market.found

\* every field other than the destinations satisfies its rule: the language
\* is absent or allowed, the three credentials are present and non-empty,
\* the start is at least 2 days ahead and the stay at least 3 nights, the
\* quota is absent, empty or at most 50, there are at most 5 rooms and no
\* room holds more than 5 occupants; currency, nationality and market are
\* optional and unconstrained
OtherFieldsValid(d, t) ==
    /\ ~LanguageViolated(d)
    /\ ~CredentialsViolated(d)
    /\ ~DatesViolated(d, t)
    /\ ~QuotaViolated(d)
    /\ Len(d.Paxes) <= allowed_room_count
    /\ ~RoomViolated(d)

\* C10: for searchType "Single" with all other fields valid, main answers
\* with the offer list iff exactly one destination entry is present; with
\* zero or several entries it returns the error object carrying the 'Single'
\* destination message and no offer list.
C10_SingleExactlyOne ==
    (pc = "done" /\ doc.SearchType = "Single" /\ OtherFieldsValid(doc, today)) =>
        IF Len(doc.AvailDestinations) = 1
        THEN result.kind = "response"
        ELSE /\ result.kind = "error"
             /\ result.error = SingleMessage
             /\ result.body = << >>
====
